---- MODULE Spec2Model ----
(***************************************************************************)
(* Model of mdl_reverse_engineer.c: the Quake .mdl decoder that writes one *)
(* .lbm raster per skin and one .tri mesh per frame.                       *)
(*                                                                         *)
(* Bytes are integers 0..255.  32-bit integers are kept as signed values   *)
(* and are converted to and from their four bytes by the operators below.  *)
(* Floats are modelled on the integer-valued floats of magnitude below     *)
(* 2^24, for which IEEE-754 single precision arithmetic is exact; they are *)
(* converted to and from their four bytes as the hardware stores them.    *)
(* The host is little-endian, as the source assumes (line 93).             *)
(***************************************************************************)
EXTENDS Integers, Sequences, FiniteSets, TLC

(* ---------------------------------------------------------------------- *)
(* Bounds of the model                                                     *)
(* ---------------------------------------------------------------------- *)
\* longest input file the model considers, in bytes
MaxFileLen == 224
\* largest skin count, vertex count, triangle count and frame count drawn
MaxSkins == 2
MaxVerts == 2
MaxTris == 1
MaxFrames == 2
\* largest width and height handed to WriteLBMfile on its own
MaxDim == 3
\* largest triangle count handed to WriteTriFile on its own
MaxTriCount == 2

(* ---------------------------------------------------------------------- *)
(* Program constants                                                       *)
(* ---------------------------------------------------------------------- *)
ALIAS_VERSION == 6
IDPOLYHEADER == 79 * 16777216 + 80 * 65536 + 68 * 256 + 73
IDTRIHEADER == 123322
ALIAS_SINGLE == 0
ALIAS_GROUP == 1
\* sizeof(daliasframe_t), sizeof(daliasgroup_t), sizeof(trivertx_t)
SizeofFrame == 24
SizeofGroup == 12
SizeofTrivertx == 4
\* upper limit of the group sanity check
MaxGroupFrames == 10000
\* bytes of the palette handed to WriteLBMfile
PaletteLen == 768

loaded_palette == <<
    0, 0, 0, 15, 15, 15, 31, 31, 31, 47, 47, 47, 63, 63, 63, 75, 75, 75, 91, 91, 91, 107, 107, 107,
    123, 123, 123, 139, 139, 139, 155, 155, 155, 171, 171, 171, 187, 187, 187, 203, 203, 203, 219, 219, 219, 235, 235, 235,
    15, 11, 7, 23, 15, 11, 31, 23, 11, 39, 27, 15, 47, 35, 19, 55, 43, 23, 63, 47, 23, 75, 55, 27,
    83, 59, 27, 91, 67, 31, 99, 75, 31, 107, 83, 31, 115, 87, 31, 123, 95, 35, 131, 103, 35, 143, 111, 35,
    11, 11, 15, 19, 19, 27, 27, 27, 39, 39, 39, 51, 47, 47, 63, 55, 55, 75, 63, 63, 87, 71, 71, 103,
    79, 79, 115, 91, 91, 127, 99, 99, 139, 107, 107, 151, 115, 115, 163, 123, 123, 175, 131, 131, 187, 139, 139, 203,
    0, 0, 0, 7, 7, 0, 11, 11, 0, 19, 19, 0, 27, 27, 0, 35, 35, 0, 43, 43, 7, 47, 47, 7,
    55, 55, 7, 63, 63, 7, 71, 71, 7, 75, 75, 11, 83, 83, 11, 91, 91, 11, 99, 99, 11, 107, 107, 15,
    7, 0, 0, 15, 0, 0, 23, 0, 0, 31, 0, 0, 39, 0, 0, 47, 0, 0, 55, 0, 0, 63, 0, 0,
    71, 0, 0, 79, 0, 0, 87, 0, 0, 95, 0, 0, 103, 0, 0, 111, 0, 0, 119, 0, 0, 127, 0, 0,
    19, 19, 0, 27, 27, 0, 35, 35, 0, 47, 43, 0, 55, 47, 0, 67, 55, 0, 75, 59, 7, 87, 67, 7,
    95, 71, 7, 107, 75, 11, 119, 83, 15, 131, 87, 19, 139, 91, 19, 151, 95, 27, 163, 99, 31, 175, 103, 35,
    35, 19, 7, 47, 23, 11, 59, 31, 15, 75, 35, 19, 87, 43, 23, 99, 47, 31, 115, 55, 35, 127, 59, 43,
    143, 67, 51, 159, 79, 51, 175, 99, 47, 191, 119, 47, 207, 143, 43, 223, 171, 39, 239, 203, 31, 255, 243, 27,
    11, 7, 0, 27, 19, 0, 43, 35, 15, 55, 43, 19, 71, 51, 27, 83, 55, 35, 99, 63, 43, 111, 71, 51,
    127, 83, 63, 139, 95, 71, 155, 107, 83, 167, 123, 95, 183, 135, 107, 195, 147, 123, 211, 163, 139, 227, 179, 151,
    171, 139, 163, 159, 127, 151, 147, 115, 135, 139, 103, 123, 127, 91, 111, 119, 83, 99, 107, 75, 87, 95, 63, 75,
    87, 55, 67, 75, 47, 55, 67, 39, 47, 55, 31, 35, 43, 23, 27, 35, 19, 19, 23, 11, 11, 15, 7, 7,
    187, 115, 159, 175, 107, 143, 163, 95, 131, 151, 87, 119, 139, 79, 107, 127, 75, 95, 115, 67, 83, 107, 59, 75,
    95, 51, 63, 83, 43, 55, 71, 35, 43, 59, 31, 35, 47, 23, 27, 35, 19, 19, 23, 11, 11, 15, 7, 7,
    219, 195, 187, 203, 179, 167, 191, 163, 155, 175, 151, 139, 163, 135, 123, 151, 123, 111, 135, 111, 95, 123, 99, 83,
    107, 87, 71, 95, 75, 59, 83, 63, 51, 67, 51, 39, 55, 43, 31, 39, 31, 23, 27, 19, 15, 15, 11, 7,
    111, 131, 123, 103, 123, 111, 95, 115, 103, 87, 107, 95, 79, 99, 87, 71, 91, 79, 63, 83, 71, 55, 75, 63,
    47, 67, 55, 43, 59, 47, 35, 51, 39, 31, 43, 31, 23, 35, 23, 15, 27, 19, 11, 19, 11, 7, 11, 7,
    255, 243, 27, 239, 223, 23, 219, 203, 19, 203, 183, 15, 187, 167, 15, 171, 151, 11, 155, 131, 7, 139, 115, 7,
    123, 99, 7, 107, 83, 0, 91, 71, 0, 75, 55, 0, 59, 43, 0, 43, 31, 0, 27, 15, 0, 11, 7, 0,
    0, 0, 255, 11, 11, 239, 19, 19, 223, 27, 27, 207, 35, 35, 191, 43, 43, 175, 47, 47, 159, 47, 47, 143,
    47, 47, 127, 47, 47, 111, 47, 47, 95, 43, 43, 79, 35, 35, 63, 27, 27, 47, 19, 19, 31, 11, 11, 15,
    43, 0, 0, 59, 0, 0, 75, 7, 0, 95, 7, 0, 111, 15, 0, 127, 23, 7, 147, 31, 7, 163, 39, 11,
    183, 51, 15, 195, 75, 27, 207, 99, 43, 219, 127, 59, 227, 151, 79, 231, 171, 95, 239, 191, 119, 247, 211, 139,
    167, 123, 59, 183, 155, 55, 199, 195, 55, 231, 227, 87, 127, 191, 255, 171, 231, 255, 215, 255, 255, 103, 0, 0,
    139, 0, 0, 179, 0, 0, 215, 0, 0, 255, 0, 0, 255, 243, 147, 255, 247, 199, 255, 255, 255, 159, 91, 83
>>

(* ---------------------------------------------------------------------- *)
(* Byte order conversion                                                   *)
(* ---------------------------------------------------------------------- *)
RECURSIVE Pow2(_)
Pow2(e) == IF e = 0 THEN 1 ELSE 2 * Pow2(e - 1)

RECURSIVE Log2(_)
\* floor of the binary logarithm of a >= 1
Log2(a) == IF a < 2 THEN 0 ELSE 1 + Log2(a \div 2)

\* the four bytes of a 32-bit value in memory on the little-endian host,
\* lowest byte first; v is the signed reading of the value
HostBytes(v) ==
    LET u == IF v < 0 THEN v + 1073741824 + 1073741824 ELSE v
        top == (u \div 16777216) + (IF v < 0 THEN 128 ELSE 0)
    IN  << u % 256, (u \div 256) % 256, (u \div 65536) % 256, top >>

\* the signed 32-bit value whose bytes in file order are b, lowest first
ReadLittleLong(b) ==
    b[1] + b[2] * 256 + b[3] * 65536
      + (IF b[4] >= 128 THEN b[4] - 256 ELSE b[4]) * 16777216

\* the signed 32-bit value whose bytes in file order are b, highest first
ReadBigLong(b) ==
    b[4] + b[3] * 256 + b[2] * 65536
      + (IF b[1] >= 128 THEN b[1] - 256 ELSE b[1]) * 16777216

\* a 16-bit value written highest byte first
WriteBigShortToBuffer(val) ==
    << (val \div 256) % 256, val % 256 >>

\* a 32-bit value written highest byte first
WriteBigLongToBuffer(val) ==
    LET h == HostBytes(val) IN << h[4], h[3], h[2], h[1] >>

\* the four bytes of the float v in memory on the host, lowest first
FloatBytes(v) ==
    IF v = 0 THEN << 0, 0, 0, 0 >>
    ELSE LET s == IF v < 0 THEN 1 ELSE 0
             a == IF v < 0 THEN 0 - v ELSE v
             e == Log2(a)
             mant == (a - Pow2(e)) * Pow2(23 - e)
             ex == 127 + e
         IN  << mant % 256,
                (mant \div 256) % 256,
                (ex % 2) * 128 + (mant \div 65536),
                s * 128 + (ex \div 2) >>

\* the float whose bytes in file order are b, lowest first
ReadLittleFloat(b) ==
    LET s == b[4] \div 128
        ex == (b[4] % 128) * 2 + (b[3] \div 128)
        mant == (b[3] % 128) * 65536 + b[2] * 256 + b[1]
        sig == 8388608 + mant
        mag == IF ex = 0 /\ mant = 0 THEN 0
               ELSE IF ex >= 150 THEN sig * Pow2(ex - 150)
               ELSE sig \div Pow2(150 - ex)
    IN  IF s = 1 THEN 0 - mag ELSE mag

\* a float written highest byte first
WriteBigFloat(val) ==
    LET b == FloatBytes(val) IN << b[4], b[3], b[2], b[1] >>

RECURSIVE Flatten(_)
\* the concatenation of a sequence of byte sequences
Flatten(ss) == IF ss = << >> THEN << >> ELSE Head(ss) \o Flatten(Tail(ss))

\* the first k elements of s
Prefix(s, k) == SubSeq(s, 1, k)

(* ---------------------------------------------------------------------- *)
(* WriteLBMfile: the bytes it builds in lbm_buffer                         *)
(* ---------------------------------------------------------------------- *)
\* the bitmap header fields as written at lines 338-350
BmhdPayload(width, height) ==
    WriteBigShortToBuffer(width % 65536) \o WriteBigShortToBuffer(height % 65536)
      \o WriteBigShortToBuffer(0) \o WriteBigShortToBuffer(0)
      \o << 8, 0, 0, 0 >>
      \o WriteBigShortToBuffer(0)
      \o << 5, 6 >>
      \o WriteBigShortToBuffer(width % 65536) \o WriteBigShortToBuffer(height % 65536)

\* LBMChunk with the pad byte counted in the length field
LBMChunkLenWithPad(tag, payload) ==
    tag \o WriteBigLongToBuffer(Len(payload) + (Len(payload) % 2)) \o payload
        \o (IF Len(payload) % 2 = 1 THEN << 0 >> ELSE << >>)

\* tag, length of the payload, payload, and a zero byte when the length is odd
LBMChunk(tag, payload) ==
    tag \o WriteBigLongToBuffer(Len(payload)) \o payload
        \o (IF Len(payload) % 2 = 1 THEN << 0 >> ELSE << >>)

\* what follows the FORM length field: the form type and the three chunks
LBMFormBody(data, width, height, palette) ==
    << 80, 66, 77, 32 >>
      \o LBMChunk(<< 66, 77, 72, 68 >>, BmhdPayload(width, height))
      \o LBMChunk(<< 67, 77, 65, 80 >>, Prefix(palette, PaletteLen))
      \o LBMChunk(<< 66, 79, 68, 89 >>, Prefix(data, width * height))

\* LBMBuffer with the FORM length taken before the BODY pad byte is written
LBMBufferLenBeforePad(data, width, height, palette) ==
    LET body == LBMFormBody(data, width, height, palette)
    IN  << 70, 79, 82, 77 >>
          \o WriteBigLongToBuffer(Len(body) - ((width * height) % 2)) \o body

\* the whole buffer handed to SaveFile
LBMBuffer(data, width, height, palette) ==
    LET body == LBMFormBody(data, width, height, palette)
    IN  << 70, 79, 82, 77 >> \o WriteBigLongToBuffer(Len(body)) \o body

(* ---------------------------------------------------------------------- *)
(* WriteTriFile: the buffers it hands to SafeWrite, in order               *)
(* ---------------------------------------------------------------------- *)
obj_name == << 101, 120, 112, 111, 114, 116, 101, 100, 95, 111, 98, 106, 101, 99, 116, 0 >>
tex_name == << 100, 101, 102, 97, 117, 108, 116, 95, 115, 107, 105, 110, 0 >>
FLOAT_START == 99999
FLOAT_END == 0 - 99999

\* TriPointWrites with the point written ahead of the normal
TriPointWritesPointFirst(vert) ==
    << WriteBigFloat(vert[1]), WriteBigFloat(vert[2]), WriteBigFloat(vert[3]),
       WriteBigFloat(0), WriteBigFloat(0), WriteBigFloat(0),
       WriteBigFloat(0), WriteBigFloat(0), WriteBigFloat(0),
       WriteBigFloat(0), WriteBigFloat(0) >>

\* the eleven floats of one corner: normal, point, colour, u and v
TriPointWrites(vert) ==
    << WriteBigFloat(0), WriteBigFloat(0), WriteBigFloat(0),
       WriteBigFloat(vert[1]), WriteBigFloat(vert[2]), WriteBigFloat(vert[3]),
       WriteBigFloat(0), WriteBigFloat(0), WriteBigFloat(0),
       WriteBigFloat(0), WriteBigFloat(0) >>

RECURSIVE TriLoopWrites(_, _, _)
\* the writes of the loop at lines 411-431 from triangle t on
TriLoopWrites(triangles, t, num_triangles) ==
    IF t > num_triangles THEN << >>
    ELSE TriPointWrites(triangles[t][1]) \o TriPointWrites(triangles[t][2])
           \o TriPointWrites(triangles[t][3])
           \o TriLoopWrites(triangles, t + 1, num_triangles)

TriFileWrites(triangles, num_triangles) ==
    << WriteBigLongToBuffer(IDTRIHEADER), WriteBigFloat(FLOAT_START), obj_name,
       WriteBigLongToBuffer(num_triangles), tex_name >>
      \o TriLoopWrites(triangles, 1, num_triangles)
      \o << WriteBigFloat(FLOAT_END), obj_name >>

(* ---------------------------------------------------------------------- *)
(* Output file names                                                       *)
(* ---------------------------------------------------------------------- *)
RECURSIVE Decimal(_)
\* the characters printf's %d gives for n
Decimal(n) ==
    IF n < 0 THEN << 45 >> \o Decimal(0 - n)
    ELSE IF n < 10 THEN << 48 + n >>
    ELSE Decimal(n \div 10) \o << 48 + (n % 10) >>

\* the input name up to its last dot
out_filename_base == << 109, 111, 100, 101, 108 >>

SkinFilename(i) ==
    out_filename_base \o << 95, 115, 107, 105, 110 >> \o Decimal(i) \o << 46, 108, 98, 109 >>

FrameFilename(i) ==
    out_filename_base \o << 95, 102, 114, 97, 109, 101 >> \o Decimal(i) \o << 46, 116, 114, 105 >>

\* SubFrameFilename without the sub-index
SubFrameFilenameNoSub(i, j) ==
    out_filename_base \o << 95, 102, 114, 97, 109, 101 >> \o Decimal(i)
      \o << 95, 115, 117, 98 >> \o << 46, 116, 114, 105 >>

SubFrameFilename(i, j) ==
    out_filename_base \o << 95, 102, 114, 97, 109, 101 >> \o Decimal(i)
      \o << 95, 115, 117, 98 >> \o Decimal(j) \o << 46, 116, 114, 105 >>

(* ---------------------------------------------------------------------- *)
(* Vertex reconstruction, lines 629-640 and 694-703                        *)
(* ---------------------------------------------------------------------- *)
\* one corner from its packed vertex
ReconstructVert(raw_vert, scale, scale_origin) ==
    << raw_vert[1] * scale[1] + scale_origin[1],
       raw_vert[2] * scale[2] + scale_origin[2],
       raw_vert[3] * scale[3] + scale_origin[3] >>


(* ---------------------------------------------------------------------- *)
(* State                                                                   *)
(* ---------------------------------------------------------------------- *)
VARIABLES
    pc,                      \* where main stands
    err,                     \* the error the session ended with, or "None"
    pos,                     \* read position in the input file
    header,                  \* mdl_header_t header
    i,                       \* the loop index i of the loop main is in
    j,                       \* the loop index j of the group loops
    field,                   \* index of the next field of the record being read
    actual_group_numframes,  \* sub-frame count of the group being read
    frame_type_int,          \* the frame discriminator read last
    skin_type_int,           \* the skin discriminator read for the skin in hand
    skin_data,               \* contents of the skin pixel buffer
    st_verts,                \* texture vertices read so far
    triangles_indices,       \* triangle records read so far
    frame_verts_raw,         \* packed vertices of the frame being read
    current_frame_triangles, \* triangle list handed to WriteTriFile
    files,                   \* output files in the order they were opened
    open,                    \* file handles that are open
    live,                    \* heap buffers that are allocated
    ioAfterFail,             \* fread/fwrite calls issued after one has failed
    lbmptr                   \* lbmptr - lbm_buffer when WriteLBMfile last filled its buffer

vars == << pc, err, pos, header, i, j, field, actual_group_numframes, frame_type_int,
           skin_type_int,
           skin_data,
           st_verts, triangles_indices, frame_verts_raw, current_frame_triangles,
           files, open, live, ioAfterFail, lbmptr >>

\* variables that only the decode of the input changes
dataVars == << header, skin_data, st_verts, triangles_indices, frame_verts_raw,
               current_frame_triangles >>
loopVars == << i, j, field, actual_group_numframes, frame_type_int, skin_type_int >>

\* the header before any field is read
ZeroHeader ==
    [ ident |-> 0, version |-> 0, scale |-> << 0, 0, 0 >>,
      scale_origin |-> << 0, 0, 0 >>, boundingradius |-> 0,
      eyeposition |-> << 0, 0, 0 >>, numskins |-> 0, skinwidth |-> 0,
      skinheight |-> 0, numverts |-> 0, numtris |-> 0, numframes |-> 0,
      synctype |-> 0, flags |-> 0, size |-> 0 ]

\* number of 4-byte fields of the header
HeaderFields == 21

(* ---------------------------------------------------------------------- *)
(* Inputs: the words and buffers the input file may hold                   *)
(* ---------------------------------------------------------------------- *)
LongWords(S) == { HostBytes(v) : v \in S }
FloatWords(S) == { FloatBytes(v) : v \in S }

IdentWords == { HostBytes(IDPOLYHEADER), << 73, 68, 80, 50 >> }
VersionWords == LongWords({ ALIAS_VERSION, 7 })
\* the words the header field f may hold, f in 3..HeaderFields
HeaderWords(f) ==
    CASE f \in 3..5   -> FloatWords({ 2 })
      [] f \in 6..8   -> FloatWords({ 0 - 3 })
      [] f = 9        -> FloatWords({ 40 })
      [] f \in 10..12 -> FloatWords({ 0 })
      [] f = 13       -> LongWords({ 0, MaxSkins })
      [] f = 14       -> LongWords({ 1, 2 })
      [] f = 15       -> LongWords({ 1 })
      [] f = 16       -> LongWords({ 1, MaxVerts })
      [] f = 17       -> LongWords({ 0, MaxTris })
      [] f = 18       -> LongWords((0 - 1)..MaxFrames)
      [] f = 19       -> LongWords({ 0 })
      [] f = 20       -> LongWords({ 0 })
      [] f = 21       -> FloatWords({ 1 })
SkinTypeWords == LongWords({ 0, 1, 5 })
\* the pixel buffers of count bytes the input may hold
SkinPatterns(count) ==
    { [ x \in 1..count |-> 7 ], [ x \in 1..count |-> (x * 37 + 90) % 256 ] }
\* the words of the field f (0..2) of a texture vertex
StWords(f) == LongWords({ IF f = 0 THEN 32 ELSE 5 })
\* the words of the field f (0..3) of a triangle: facesfront, vertindex[0..2]
TriWords(f) == IF f = 1 THEN LongWords({ 0, 1 }) ELSE LongWords({ IF f = 0 THEN 1 ELSE 0 })
FrameTypeWords == LongWords({ ALIAS_SINGLE, ALIAS_GROUP, 2 })
\* the vertex buffers of count packed vertices the input may hold
FramePatterns(count) ==
    { [ x \in 1..count |-> << 0, 0, 0, 0 >> ],
      [ x \in 1..count |-> << x, 128, 255, 9 + x >> ] }
\* the first four bytes of a group header
GroupCountWords ==
    LongWords({ 0 - 1, 0, 1, 2, MaxGroupFrames, MaxGroupFrames + 1 }) \cup { << 0, 0, 0, 1 >> }
\* what a read past the end of frame_verts_raw may find
GarbageVerts == { << 0, 0, 0, 0 >>, << 255, 255, 255, 255 >> }

(* ---------------------------------------------------------------------- *)
(* cmdlib: Error, SafeRead, SafeWrite, SaveFile                            *)
(* ---------------------------------------------------------------------- *)
\* Error prints and calls exit(1): nothing is closed or freed by the program
Error(e) ==
    /\ pc' = "Failed"
    /\ err' = e

\* the byte counts fread may return short of count, the file being at p
ShortReads(p, count) ==
    { a \in { 0, count - 1, MaxFileLen - p } : a >= 0 /\ a < count /\ p + a <= MaxFileLen }

\* ReadOk without the test of fread's result: a short read goes on
ReadOkUnchecked(count) ==
    /\ pos + count <= MaxFileLen
    /\ pos' \in { pos + count, pos + count - 1 }

\* fread delivers all count bytes
ReadOk(count) ==
    /\ pos + count <= MaxFileLen
    /\ pos' = pos + count

\* SafeRead finds fewer than count bytes and calls Error
SafeReadFails(count) ==
    /\ \E a \in ShortReads(pos, count) : pos' = pos + a
    /\ Error("TruncatedInput")
    /\ UNCHANGED << dataVars, loopVars, files, open, live, ioAfterFail, lbmptr >>

\* the writes among the n of one file at which the model lets fwrite fail
FailPoints(n) == { 1, n }

\* SafeWrite's condition: the write is good when fwrite returns count
WriteGood(written, count) == written = count

\* the pairs of byte counts that the two fwrite calls of a SafeWrite of count
\* bytes may return: the call of line 76 and the one in the arguments of Error
RetryCounts(count) == { << 0, 0 >>, << count - 1, count >> }

\* What SafeOpenWrite followed by SafeWrite of each of chunks leaves behind.
\* opened: fopen succeeded; ok: every SafeWrite returned; data: the bytes in
\* the file; retried: fwrite calls made after the one that failed (line 77);
\* err: the error Error was called for.
WriteOutcomes(chunks) ==
    LET FailAt(f, k) ==
            [ opened |-> TRUE, ok |-> FALSE,
              data |-> Flatten(Prefix(chunks, f - 1)) \o Prefix(chunks[f], k[1])
                          \o Prefix(chunks[f], k[2]),
              retried |-> 1, err |-> "IOFailure" ]
    IN  { [ opened |-> FALSE, ok |-> FALSE, data |-> << >>, retried |-> 0,
            err |-> "IOFailure" ] }
          \cup { [ opened |-> TRUE, ok |-> TRUE, data |-> Flatten(chunks), retried |-> 0,
                   err |-> "None" ] }
          \cup UNION { { FailAt(f, k) :
                           k \in { c \in RetryCounts(Len(chunks[f])) :
                                     ~ WriteGood(c[1], Len(chunks[f])) } } :
                       f \in FailPoints(Len(chunks)) }

\* the effect of one output file on files, open, ioAfterFail, pc and err;
\* next is where main goes on when the file is complete
EmitFile(name, o, next) ==
    /\ files' = IF o.opened THEN Append(files, [ name |-> name, data |-> o.data ])
                ELSE files
    /\ open' = IF o.opened /\ ~ o.ok THEN open \cup { "out" } ELSE open
    /\ ioAfterFail' = ioAfterFail + o.retried
    /\ IF o.ok THEN pc' = next /\ err' = err ELSE Error(o.err)

\* bytes malloc'd for lbm_buffer, line 308
LBMCapacity == 8 + (8 + 20 + 1) + (8 + 768 + 1) + (8 + 512 * 512 + 1)

\* lbmptr - lbm_buffer once the buffer is filled, lines 313-371: every
\* memcpy, placeholder, field and pad byte moves lbmptr on
LBMBytesWritten(width, height) ==
    (4 + 4 + 4)
      + (4 + 4 + (2 + 2 + 2 + 2 + 1 + 1 + 1 + 1 + 2 + 1 + 1 + 2 + 2) + (20 % 2))
      + (4 + 4 + 768 + (768 % 2))
      + (4 + 4 + width * height + ((width * height) % 2))

\* the buffer is filled past its end
LBMOverflow(width, height) == LBMBytesWritten(width, height) > LBMCapacity

\* WriteLBMfile, lines 296-380: the outcomes of its malloc and of SaveFile.
\* Bytes written past the end of lbm_buffer either go unnoticed or make the
\* process fault.
WriteLBMfile(data, width, height, palette) ==
    { [ opened |-> FALSE, ok |-> FALSE, data |-> << >>, retried |-> 0,
        err |-> "AllocFailure" ] }
      \cup UNION { WriteOutcomes(<< buf >>) :
                      buf \in { LBMBuffer(data, width, height, palette) } }
      \cup (IF LBMOverflow(width, height)
            THEN { [ opened |-> FALSE, ok |-> FALSE, data |-> << >>, retried |-> 0,
                     err |-> "MemoryFault" ] }
            ELSE {})

\* lbmptr - lbm_buffer after the call with the outcome o, p being its value
\* before
LBMPtrAfter(o, p, width, height) ==
    IF o.err = "AllocFailure" THEN p ELSE LBMBytesWritten(width, height)

\* the buffers WriteLBMfile leaves allocated on the outcome o
LBMLeak(o) == IF o.ok \/ o.err = "AllocFailure" THEN {} ELSE { "lbm_buffer" }

\* WriteTriFile, lines 384-440: the outcomes of its fopen and SafeWrites
WriteTriFile(triangles, num_triangles) ==
    UNION { WriteOutcomes(writes) : writes \in { TriFileWrites(triangles, num_triangles) } }

\* malloc returns NULL and main calls Error
MallocFails ==
    /\ Error("AllocFailure")
    /\ UNCHANGED << pos, dataVars, loopVars, files, open, live, ioAfterFail, lbmptr >>

(* ---------------------------------------------------------------------- *)
(* main: header                                                            *)
(* ---------------------------------------------------------------------- *)
Init ==
    /\ pc = "Start"
    /\ err = "None"
    /\ pos = 0
    /\ header = ZeroHeader
    /\ i = 0
    /\ j = 0
    /\ field = 1
    /\ actual_group_numframes = 0
    /\ frame_type_int = 0
    /\ skin_type_int = 0
    /\ skin_data = << >>
    /\ st_verts = << >>
    /\ triangles_indices = << >>
    /\ frame_verts_raw = << >>
    /\ current_frame_triangles = << >>
    /\ files = << >>
    /\ open = {}
    /\ live = {}
    /\ ioAfterFail = 0
    /\ lbmptr = 0

\* SafeOpenRead, line 501
OpenInput ==
    /\ pc = "Start"
    /\ \/ /\ open' = open \cup { "mdl_file" }
          /\ pc' = "ReadIdent"
          /\ err' = err
       \/ /\ Error("OpenFailure")
          /\ open' = open
    /\ UNCHANGED << pos, dataVars, loopVars, files, live, ioAfterFail, lbmptr >>

\* line 513
ReadIdent ==
    /\ pc = "ReadIdent"
    /\ UNCHANGED << frame_type_int, skin_type_int >>
    /\ \/ /\ ReadOk(4)
          /\ \E w \in IdentWords : header' = [ header EXCEPT !.ident = ReadLittleLong(w) ]
          /\ pc' = "ReadVersion"
          /\ field' = 2
          /\ UNCHANGED << err, i, j, actual_group_numframes, skin_data, st_verts,
                          triangles_indices, frame_verts_raw, current_frame_triangles,
                          files, open, live, ioAfterFail, lbmptr >>
       \/ SafeReadFails(4)

\* HeaderValid without the version test
HeaderValidIdentOnly(h) == h.ident = IDPOLYHEADER

\* the test of line 517
HeaderValid(h) == h.ident = IDPOLYHEADER /\ h.version = ALIAS_VERSION

\* lines 514-520
ReadVersion ==
    /\ pc = "ReadVersion"
    /\ UNCHANGED << frame_type_int, skin_type_int >>
    /\ \/ /\ ReadOk(4)
          /\ \E w \in VersionWords : header' = [ header EXCEPT !.version = ReadLittleLong(w) ]
          /\ IF HeaderValid(header')
             THEN pc' = "ReadHeader" /\ err' = err /\ field' = 3
             ELSE Error("InvalidFormat") /\ field' = field
          /\ UNCHANGED << i, j, actual_group_numframes, skin_data, st_verts,
                          triangles_indices, frame_verts_raw, current_frame_triangles,
                          files, open, live, ioAfterFail, lbmptr >>
       \/ SafeReadFails(4)

\* the header with its field f (3..21) set from the word w, lines 523-535
SetHeaderField(h, f, w) ==
    CASE f \in 3..5   -> [ h EXCEPT !.scale[f - 2] = ReadLittleFloat(w) ]
      [] f \in 6..8   -> [ h EXCEPT !.scale_origin[f - 5] = ReadLittleFloat(w) ]
      [] f = 9        -> [ h EXCEPT !.boundingradius = ReadLittleFloat(w) ]
      [] f \in 10..12 -> [ h EXCEPT !.eyeposition[f - 9] = ReadLittleFloat(w) ]
      [] f = 13       -> [ h EXCEPT !.numskins = ReadLittleLong(w) ]
      [] f = 14       -> [ h EXCEPT !.skinwidth = ReadLittleLong(w) ]
      [] f = 15       -> [ h EXCEPT !.skinheight = ReadLittleLong(w) ]
      [] f = 16       -> [ h EXCEPT !.numverts = ReadLittleLong(w) ]
      [] f = 17       -> [ h EXCEPT !.numtris = ReadLittleLong(w) ]
      [] f = 18       -> [ h EXCEPT !.numframes = ReadLittleLong(w) ]
      [] f = 19       -> [ h EXCEPT !.synctype = ReadLittleLong(w) ]
      [] f = 20       -> [ h EXCEPT !.flags = ReadLittleLong(w) ]
      [] f = 21       -> [ h EXCEPT !.size = ReadLittleFloat(w) ]

\* SkinLoopPc with the texture vertices skipped after the last skin
SkinLoopPcSkipST(h, x) == IF x < h.numskins THEN "SkinType" ELSE "AllocTris"

\* where the skin loop of line 549 goes with index x
SkinLoopPc(h, x) == IF x < h.numskins THEN "SkinType" ELSE "AllocST"

\* lines 523-535, one field a step; after the last the skin loop is entered
ReadHeaderField ==
    /\ pc = "ReadHeader"
    /\ UNCHANGED << frame_type_int, skin_type_int >>
    /\ \/ /\ ReadOk(4)
          /\ \E w \in HeaderWords(field) : header' = SetHeaderField(header, field, w)
          /\ IF field < HeaderFields
             THEN pc' = pc /\ field' = field + 1 /\ i' = i
             ELSE pc' = SkinLoopPc(header', 0) /\ field' = 0 /\ i' = 0
          /\ UNCHANGED << err, j, actual_group_numframes, skin_data, st_verts,
                          triangles_indices, frame_verts_raw, current_frame_triangles,
                          files, open, live, ioAfterFail, lbmptr >>
       \/ SafeReadFails(4)

(* ---------------------------------------------------------------------- *)
(* main: skins                                                             *)
(* ---------------------------------------------------------------------- *)
\* SkinDispatch with a discriminator other than 0 and 1 taken as the end of
\* the skins
SkinDispatchStopsOnUnknown(t) == IF t \in { 0, 1 } THEN "SkinAlloc" ELSE "AllocST"

\* where main goes on the skin discriminator t: line 550 drops the value and
\* line 555 follows whatever it was
SkinDispatch(t) == "SkinAlloc"

\* line 550: the discriminator is read and dropped
ReadSkinType ==
    /\ pc = "SkinType"
    /\ \/ /\ ReadOk(4)
          /\ \E w \in SkinTypeWords : skin_type_int' = ReadLittleLong(w)
          /\ pc' = SkinDispatch(skin_type_int')
          /\ UNCHANGED << err, dataVars, i, j, field, actual_group_numframes,
                          frame_type_int, files, open, live, ioAfterFail, lbmptr >>
       \/ SafeReadFails(4)

\* lines 555-558
AllocSkin ==
    /\ pc = "SkinAlloc"
    /\ \/ /\ live' = live \cup { "skin_data" }
          /\ pc' = "SkinRead"
          /\ UNCHANGED << err, pos, dataVars, loopVars, files, open, ioAfterFail, lbmptr >>
       \/ MallocFails

\* line 559
ReadSkin ==
    /\ pc = "SkinRead"
    /\ LET count == header.skinwidth * header.skinheight
       IN  \/ /\ ReadOk(count)
              /\ \E d \in SkinPatterns(count) : skin_data' = d
              /\ pc' = "SkinSave"
              /\ UNCHANGED << err, header, st_verts, triangles_indices, frame_verts_raw,
                              current_frame_triangles, loopVars, files, open, live,
                              ioAfterFail, lbmptr >>
           \/ SafeReadFails(count)

\* lines 561-567: the skin is written, its buffer freed, and i advanced
SaveSkin ==
    /\ pc = "SkinSave"
    /\ UNCHANGED frame_type_int
    /\ \E o \in WriteLBMfile(skin_data, header.skinwidth, header.skinheight,
                             loaded_palette) :
          /\ EmitFile(SkinFilename(i), o, SkinLoopPc(header, i + 1))
          /\ lbmptr' = LBMPtrAfter(o, lbmptr, header.skinwidth, header.skinheight)
          /\ IF o.ok
             THEN /\ live' = live \ { "skin_data" }
                  /\ skin_data' = << >>
                  /\ skin_type_int' = 0
                  /\ i' = i + 1
             ELSE /\ live' = live \cup LBMLeak(o)
                  /\ UNCHANGED << skin_data, skin_type_int, i >>
    /\ UNCHANGED << pos, header, st_verts, triangles_indices, frame_verts_raw,
                    current_frame_triangles, j, field, actual_group_numframes >>

(* ---------------------------------------------------------------------- *)
(* main: texture vertices and triangles                                    *)
(* ---------------------------------------------------------------------- *)
\* lines 574-577
AllocST ==
    /\ pc = "AllocST"
    /\ UNCHANGED << frame_type_int, skin_type_int >>
    /\ \/ /\ live' = live \cup { "st_verts" }
          /\ pc' = IF 0 < header.numverts THEN "ReadST" ELSE "AllocTris"
          /\ i' = 0
          /\ field' = 0
          /\ UNCHANGED << err, pos, dataVars, j, actual_group_numframes, files, open,
                          ioAfterFail, lbmptr >>
       \/ MallocFails

\* the records recs with the value v stored as field f of record x (0-based)
StoreField(recs, x, f, v) ==
    IF f = 0 THEN Append(recs, << v >>)
    ELSE [ recs EXCEPT ![x + 1] = Append(@, v) ]

\* lines 578-582, one ReadLittleLong a step
ReadST ==
    /\ pc = "ReadST"
    /\ UNCHANGED << frame_type_int, skin_type_int >>
    /\ \/ /\ ReadOk(4)
          /\ \E w \in StWords(field) :
                st_verts' = StoreField(st_verts, i, field, ReadLittleLong(w))
          /\ IF field < 2
             THEN field' = field + 1 /\ i' = i /\ pc' = pc
             ELSE /\ field' = 0
                  /\ i' = i + 1
                  /\ pc' = IF i + 1 < header.numverts THEN "ReadST" ELSE "AllocTris"
          /\ UNCHANGED << err, header, skin_data, triangles_indices, frame_verts_raw,
                          current_frame_triangles, j, actual_group_numframes, files,
                          open, live, ioAfterFail, lbmptr >>
       \/ SafeReadFails(4)

\* FrameLoopPc with the loop left only when the index equals the frame count
FrameLoopPcUntilEqual(h, x) == IF x # h.numframes THEN "FrameType" ELSE "Finish"

\* where the frame loop of line 605 goes with index x
FrameLoopPc(h, x) == IF x < h.numframes THEN "FrameType" ELSE "Finish"

\* lines 588-591
AllocTris ==
    /\ pc = "AllocTris"
    /\ UNCHANGED << frame_type_int, skin_type_int >>
    /\ \/ /\ live' = live \cup { "triangles_indices" }
          /\ pc' = IF 0 < header.numtris THEN "ReadTri" ELSE FrameLoopPc(header, 0)
          /\ i' = 0
          /\ field' = 0
          /\ UNCHANGED << err, pos, dataVars, j, actual_group_numframes, files, open,
                          ioAfterFail, lbmptr >>
       \/ MallocFails

\* lines 592-597, one ReadLittleLong a step; then the frame loop is entered
ReadTri ==
    /\ pc = "ReadTri"
    /\ UNCHANGED << frame_type_int, skin_type_int >>
    /\ \/ /\ ReadOk(4)
          /\ \E w \in TriWords(field) :
                triangles_indices' = StoreField(triangles_indices, i, field, ReadLittleLong(w))
          /\ IF field < 3
             THEN field' = field + 1 /\ i' = i /\ pc' = pc
             ELSE /\ field' = 0
                  /\ IF i + 1 < header.numtris
                     THEN i' = i + 1 /\ pc' = "ReadTri"
                     ELSE i' = 0 /\ pc' = FrameLoopPc(header, 0)
          /\ UNCHANGED << err, header, skin_data, st_verts, frame_verts_raw,
                          current_frame_triangles, j, actual_group_numframes, files,
                          open, live, ioAfterFail, lbmptr >>
       \/ SafeReadFails(4)

(* ---------------------------------------------------------------------- *)
(* main: frames                                                            *)
(* ---------------------------------------------------------------------- *)
\* FrameDispatch with every discriminator but ALIAS_GROUP taken as a single frame
FrameDispatchNoElse(t) ==
    IF t = ALIAS_GROUP THEN "GroupInfo" ELSE "SingleInfo"

\* where main goes on the frame discriminator t, lines 609, 650 and 715
FrameDispatch(t) ==
    IF t = ALIAS_SINGLE THEN "SingleInfo"
    ELSE IF t = ALIAS_GROUP THEN "GroupInfo"
    ELSE "Failed"

\* lines 606-609, 650, 715-717
ReadFrameType ==
    /\ pc = "FrameType"
    /\ \/ /\ ReadOk(4)
          /\ \E w \in FrameTypeWords : frame_type_int' = ReadLittleLong(w)
          /\ pc' = FrameDispatch(frame_type_int')
          /\ err' = IF pc' = "Failed" THEN "UnknownFrameType" ELSE err
          /\ UNCHANGED << dataVars, i, j, field, actual_group_numframes, skin_type_int,
                          files, open, live, ioAfterFail, lbmptr >>
       \/ SafeReadFails(4)

\* a SafeRead of count bytes whose contents main does not use
ReadDropped(count, next) ==
    \/ /\ ReadOk(count)
       /\ pc' = next
       /\ UNCHANGED << err, dataVars, loopVars, files, open, live, ioAfterFail, lbmptr >>
    \/ SafeReadFails(count)

\* malloc of the packed vertex buffer
AllocFrameVerts(next) ==
    \/ /\ live' = live \cup { "frame_verts_raw" }
       /\ pc' = next
       /\ UNCHANGED << err, pos, dataVars, loopVars, files, open, ioAfterFail, lbmptr >>
    \/ MallocFails

\* SafeRead of header.numverts packed vertices
ReadFrameVerts(next) ==
    LET count == header.numverts * SizeofTrivertx
    IN  \/ /\ ReadOk(count)
           /\ \E d \in FramePatterns(header.numverts) : frame_verts_raw' = d
           /\ pc' = next
           /\ UNCHANGED << err, header, skin_data, st_verts, triangles_indices,
                           current_frame_triangles, loopVars, files, open, live,
                           ioAfterFail, lbmptr >>
        \/ SafeReadFails(count)

\* the vertex indices of the first numtris triangles that lie outside verts
OutOfRange(verts, tris, numtris) ==
    { tris[t][c + 1] : t \in 1..numtris, c \in 1..3 } \ (0..(Len(verts) - 1))

\* frame_verts_raw[vert_index]; garbage is what lies outside the buffer
FetchVert(verts, vert_index, garbage) ==
    IF vert_index \in 0..(Len(verts) - 1) THEN verts[vert_index + 1]
    ELSE garbage[vert_index]

\* the loops of lines 629-640
ReconstructSingle(verts, tris, numtris, scale, scale_origin, garbage) ==
    [ t \in 1..numtris |->
        [ v_idx \in 1..3 |->
            ReconstructVert(FetchVert(verts, tris[t][v_idx + 1], garbage),
                            scale, scale_origin) ] ]

\* the loops of lines 694-703
ReconstructGroup(verts, tris, numtris, scale, scale_origin, garbage) ==
    [ t \in 1..numtris |->
        [ v_idx \in 1..3 |->
            ReconstructVert(FetchVert(verts, tris[t][v_idx + 1], garbage),
                            scale, scale_origin) ] ]

\* malloc of the triangle list fails
AllocTrianglesFails ==
    /\ Error("AllocFailure")
    /\ UNCHANGED << pos, dataVars, loopVars, files, open, live, ioAfterFail, lbmptr >>

\* a vertex index outside frame_verts_raw reads memory that is not mapped
ReconstructFaults ==
    /\ OutOfRange(frame_verts_raw, triangles_indices, header.numtris) # {}
    /\ Error("MemoryFault")
    /\ live' = live \cup { "current_frame_triangles" }
    /\ UNCHANGED << pos, dataVars, loopVars, files, open, ioAfterFail, lbmptr >>

\* lines 610-612
ReadSingleInfo ==
    /\ pc = "SingleInfo"
    /\ ReadDropped(SizeofFrame, "SingleAlloc")

\* lines 614-617
AllocSingleVerts ==
    /\ pc = "SingleAlloc"
    /\ AllocFrameVerts("SingleVerts")

\* line 618
ReadSingleVerts ==
    /\ pc = "SingleVerts"
    /\ ReadFrameVerts("SingleEmit")

\* the index i after a Single entry, line 649
AfterSingle(x) == x + 1

\* lines 623-649: reconstruct, write the mesh, free the buffers, advance i
EmitSingle ==
    /\ pc = "SingleEmit"
    /\ UNCHANGED << frame_type_int, skin_type_int >>
    /\ \/ AllocTrianglesFails
       \/ ReconstructFaults
       \/ \E garbage \in [ OutOfRange(frame_verts_raw, triangles_indices, header.numtris)
                             -> GarbageVerts ] :
            LET tris == ReconstructSingle(frame_verts_raw, triangles_indices,
                                          header.numtris, header.scale,
                                          header.scale_origin, garbage)
            IN  \E o \in WriteTriFile(tris, header.numtris) :
                  /\ EmitFile(FrameFilename(i), o, FrameLoopPc(header, AfterSingle(i)))
                  /\ IF o.ok
                     THEN /\ live' = live \ { "frame_verts_raw" }
                          /\ frame_verts_raw' = << >>
                          /\ current_frame_triangles' = << >>
                          /\ i' = AfterSingle(i)
                     ELSE /\ live' = live \cup { "current_frame_triangles" }
                          /\ frame_verts_raw' = frame_verts_raw
                          /\ current_frame_triangles' = tris
                          /\ i' = i
                  /\ UNCHANGED << pos, header, skin_data, st_verts, triangles_indices,
                                  j, field, actual_group_numframes, lbmptr >>

\* the sub-frame count of a group header whose first four bytes are w:
\* the struct member is used as the little-endian host holds it, line 657
GroupNumframes(w) == ReadLittleLong(w)

\* SuspiciousCount with the upper limit itself rejected
SuspiciousCountOffByOne(count) == count <= 0 \/ count >= MaxGroupFrames

\* the sanity check of line 664
SuspiciousCount(count) == count <= 0 \/ count > MaxGroupFrames

\* lines 651-666
ReadGroupInfo ==
    /\ pc = "GroupInfo"
    /\ UNCHANGED << frame_type_int, skin_type_int >>
    /\ \/ /\ ReadOk(SizeofGroup)
          /\ \E w \in GroupCountWords : actual_group_numframes' = GroupNumframes(w)
          /\ IF SuspiciousCount(actual_group_numframes')
             THEN Error("SuspiciousCount")
             ELSE pc' = "Interval" /\ err' = err
          /\ j' = 0
          /\ UNCHANGED << dataVars, i, field, files, open, live, ioAfterFail, lbmptr >>
       \/ SafeReadFails(SizeofGroup)

\* lines 670-672, one ReadLittleFloat a step
ReadInterval ==
    /\ pc = "Interval"
    /\ UNCHANGED << frame_type_int, skin_type_int >>
    /\ \/ /\ ReadOk(4)
          /\ IF j + 1 < actual_group_numframes
             THEN j' = j + 1 /\ pc' = pc
             ELSE j' = 0 /\ pc' = "SubInfo"
          /\ UNCHANGED << err, dataVars, i, field, actual_group_numframes, files, open,
                          live, ioAfterFail, lbmptr >>
       \/ SafeReadFails(4)

\* lines 677-679
ReadSubInfo ==
    /\ pc = "SubInfo"
    /\ ReadDropped(SizeofFrame, "SubAlloc")

\* lines 681-684
AllocSubVerts ==
    /\ pc = "SubAlloc"
    /\ AllocFrameVerts("SubVerts")

\* line 685
ReadSubVerts ==
    /\ pc = "SubVerts"
    /\ ReadFrameVerts("SubEmit")

\* AfterGroup with the group entry itself not counted
AfterGroupCountOnly(x, count) == x + count

\* the index i after a Group entry of count sub-frames, line 714
AfterGroup(x, count) == x + (1 + count)

\* lines 688-714: reconstruct, write the mesh, free the buffers, advance j
\* and, after the last sub-frame, i
EmitSub ==
    /\ pc = "SubEmit"
    /\ UNCHANGED << frame_type_int, skin_type_int >>
    /\ \/ AllocTrianglesFails
       \/ ReconstructFaults
       \/ \E garbage \in [ OutOfRange(frame_verts_raw, triangles_indices, header.numtris)
                             -> GarbageVerts ] :
            LET tris == ReconstructGroup(frame_verts_raw, triangles_indices,
                                         header.numtris, header.scale,
                                         header.scale_origin, garbage)
                last == ~ (j + 1 < actual_group_numframes)
                after == AfterGroup(i, actual_group_numframes)
            IN  \E o \in WriteTriFile(tris, header.numtris) :
                  /\ EmitFile(SubFrameFilename(i, j), o,
                              IF last THEN FrameLoopPc(header, after) ELSE "SubInfo")
                  /\ IF o.ok
                     THEN /\ live' = live \ { "frame_verts_raw" }
                          /\ frame_verts_raw' = << >>
                          /\ current_frame_triangles' = << >>
                          /\ j' = j + 1
                          /\ i' = IF last THEN after ELSE i
                     ELSE /\ live' = live \cup { "current_frame_triangles" }
                          /\ frame_verts_raw' = frame_verts_raw
                          /\ current_frame_triangles' = tris
                          /\ j' = j
                          /\ i' = i
                  /\ UNCHANGED << pos, header, skin_data, st_verts, triangles_indices,
                                  field, actual_group_numframes, lbmptr >>

\* Finish without the free of triangles_indices
FinishKeepsTriangles ==
    /\ pc = "Finish"
    /\ live' = live \ { "st_verts" }
    /\ open' = open \ { "mdl_file" }
    /\ pc' = "Done"
    /\ UNCHANGED << err, pos, dataVars, loopVars, files, ioAfterFail, lbmptr >>

\* lines 720-727
Finish ==
    /\ pc = "Finish"
    /\ live' = live \ { "st_verts", "triangles_indices" }
    /\ open' = open \ { "mdl_file" }
    /\ pc' = "Done"
    /\ UNCHANGED << err, pos, dataVars, loopVars, files, ioAfterFail, lbmptr >>

Next ==
    \/ OpenInput
    \/ ReadIdent
    \/ ReadVersion
    \/ ReadHeaderField
    \/ ReadSkinType
    \/ AllocSkin
    \/ ReadSkin
    \/ SaveSkin
    \/ AllocST
    \/ ReadST
    \/ AllocTris
    \/ ReadTri
    \/ ReadFrameType
    \/ ReadSingleInfo
    \/ AllocSingleVerts
    \/ ReadSingleVerts
    \/ EmitSingle
    \/ ReadGroupInfo
    \/ ReadInterval
    \/ ReadSubInfo
    \/ AllocSubVerts
    \/ ReadSubVerts
    \/ EmitSub
    \/ Finish

Spec == Init /\ [][Next]_vars

\* main runs on: while a statement can be executed, one is
SpecLive == Spec /\ WF_vars(Next)


(* ---------------------------------------------------------------------- *)
(* WriteLBMfile on its own: every width, height and pixel buffer           *)
(* ---------------------------------------------------------------------- *)
\* the widths and heights handed to WriteLBMfile
DimVals == 0..MaxDim

InitLBM ==
    /\ pc = "CallLBM"
    /\ err = "None"
    /\ pos = 0
    /\ \E w \in DimVals, h \in DimVals :
          /\ w * h >= 0
          /\ header = [ ZeroHeader EXCEPT !.skinwidth = w, !.skinheight = h ]
          /\ skin_data \in SkinPatterns(w * h)
    /\ i = 0
    /\ j = 0
    /\ field = 0
    /\ actual_group_numframes = 0
    /\ frame_type_int = 0
    /\ skin_type_int = 0
    /\ st_verts = << >>
    /\ triangles_indices = << >>
    /\ frame_verts_raw = << >>
    /\ current_frame_triangles = << >>
    /\ files = << >>
    /\ open = {}
    /\ live = { "skin_data" }
    /\ ioAfterFail = 0
    /\ lbmptr = 0

\* one call WriteLBMfile(skin_filename, skin_data, width, height, palette)
CallWriteLBMfile ==
    /\ pc = "CallLBM"
    /\ \E o \in WriteLBMfile(skin_data, header.skinwidth, header.skinheight,
                             loaded_palette) :
          /\ EmitFile(SkinFilename(i), o, "Returned")
          /\ lbmptr' = LBMPtrAfter(o, lbmptr, header.skinwidth, header.skinheight)
          /\ live' = live \cup LBMLeak(o)
    /\ UNCHANGED << pos, dataVars, loopVars >>

NextLBM == CallWriteLBMfile

SpecLBM == InitLBM /\ [][NextLBM]_vars

(* ---------------------------------------------------------------------- *)
(* WriteLBMfile's use of lbm_buffer on its own, lines 308-375: the sizes   *)
(* only, for skins as large as the header may declare                      *)
(* ---------------------------------------------------------------------- *)
\* the widths and heights a header may declare: the small ones and those
\* about the 256 and 512 of the comment of line 307
HeaderDimVals == 0..MaxDim \cup { 255, 256, 511, 512, 513 }

InitFill ==
    /\ pc = "CallFill"
    /\ err = "None"
    /\ pos = 0
    /\ \E w \in HeaderDimVals, h \in HeaderDimVals :
          header = [ ZeroHeader EXCEPT !.numskins = 1, !.skinwidth = w, !.skinheight = h ]
    /\ i = 0
    /\ j = 0
    /\ field = 0
    /\ actual_group_numframes = 0
    /\ frame_type_int = 0
    /\ skin_type_int = 0
    /\ skin_data = << >>
    /\ st_verts = << >>
    /\ triangles_indices = << >>
    /\ frame_verts_raw = << >>
    /\ current_frame_triangles = << >>
    /\ files = << >>
    /\ open = {}
    /\ live = { "skin_data" }
    /\ ioAfterFail = 0
    /\ lbmptr = 0

\* lines 308-375 of one call WriteLBMfile(.., width, height, ..): the malloc
\* and the filling of lbm_buffer, up to the call of SaveFile
FillLBMBuffer ==
    /\ pc = "CallFill"
    /\ \/ /\ Error("AllocFailure")
          /\ UNCHANGED << live, lbmptr >>
       \/ /\ lbmptr' = LBMBytesWritten(header.skinwidth, header.skinheight)
          /\ live' = live \cup { "lbm_buffer" }
          /\ \/ pc' = "Filled" /\ err' = err
             \/ /\ LBMOverflow(header.skinwidth, header.skinheight)
                /\ Error("MemoryFault")
    /\ UNCHANGED << pos, dataVars, loopVars, files, open, ioAfterFail >>

NextFill == FillLBMBuffer

SpecFill == InitFill /\ [][NextFill]_vars

(* ---------------------------------------------------------------------- *)
(* WriteTriFile on its own: every triangle list and count                  *)
(* ---------------------------------------------------------------------- *)
\* the triangles handed to WriteTriFile: three corners of three floats
TriangleVals ==
    { << << 0, 0, 0 >>, << 0, 0, 0 >>, << 0, 0, 0 >> >>,
      << << 1, 2, 3 >>, << 4, 5, 6 >>, << 7, 8, 9 >> >>,
      << << 0 - 3, 507, 99999 >>, << 0 - 99999, 255, 0 - 1 >>, << 16777215, 64, 0 - 128 >> >>,
      << << 13, 0 - 13, 13 >>, << 1000, 0 - 1000, 0 >>, << 0 - 6, 65536, 127 >> >> }

InitTri ==
    /\ pc = "CallTri"
    /\ err = "None"
    /\ pos = 0
    /\ \E c \in 0..MaxTriCount :
          /\ header = [ ZeroHeader EXCEPT !.numtris = c ]
          /\ current_frame_triangles \in [ 1..c -> TriangleVals ]
    /\ i = 0
    /\ j = 0
    /\ field = 0
    /\ actual_group_numframes = 0
    /\ frame_type_int = 0
    /\ skin_type_int = 0
    /\ skin_data = << >>
    /\ st_verts = << >>
    /\ triangles_indices = << >>
    /\ frame_verts_raw = << >>
    /\ files = << >>
    /\ open = {}
    /\ live = { "current_frame_triangles" }
    /\ ioAfterFail = 0
    /\ lbmptr = 0

\* one call WriteTriFile(frame_filename, current_frame_triangles, numtris)
CallWriteTriFile ==
    /\ pc = "CallTri"
    /\ \E o \in WriteTriFile(current_frame_triangles, header.numtris) :
          EmitFile(FrameFilename(i), o, "Returned")
    /\ UNCHANGED << pos, dataVars, loopVars, live, lbmptr >>

NextTri == CallWriteTriFile

SpecTri == InitTri /\ [][NextTri]_vars


(* ---------------------------------------------------------------------- *)
(* Reading the output files back                                           *)
(* ---------------------------------------------------------------------- *)
\* the length field of the outer FORM chunk of the raster file d
FormLengthField(d) == ReadBigLong(SubSeq(d, 5, 8))

\* the payload length stated by the chunk that starts at byte p of d
ChunkPayloadLen(d, p) == ReadBigLong(SubSeq(d, p + 4, p + 7))

\* the bytes on disk of the chunk that starts at byte p of d: tag, length
\* field and the payload rounded up to even
ChunkDiskSize(d, p) ==
    4 + 4 + ChunkPayloadLen(d, p) + (ChunkPayloadLen(d, p) % 2)

\* the sum of the disk sizes of the three chunks nested in the FORM of d
NestedChunksSize(d) ==
    LET p1 == 13
        p2 == p1 + ChunkDiskSize(d, p1)
        p3 == p2 + ChunkDiskSize(d, p2)
    IN  ChunkDiskSize(d, p1) + ChunkDiskSize(d, p2) + ChunkDiskSize(d, p3)

\* the float stored highest byte first in the four bytes b
BigFloatValue(b) == ReadLittleFloat(<< b[4], b[3], b[2], b[1] >>)

Zeros(count) == [ x \in 1..count |-> 0 ]

TriFileLayout(d, tris, count) ==
    /\ SubSeq(d, 1, 4) = << 0, 1, 225, 186 >>
    /\ SubSeq(d, 5, 8) = << 71, 195, 79, 128 >>
    /\ SubSeq(d, 9, 24) = obj_name
    /\ Len(obj_name) = 16 /\ obj_name[16] = 0
    /\ ReadBigLong(SubSeq(d, 25, 28)) = count
    /\ SubSeq(d, 29, 41) = tex_name
    /\ Len(tex_name) = 13 /\ tex_name[13] = 0
    /\ \A t \in 1..count, c \in 1..3 :
          LET p == 41 + ((t - 1) * 3 + (c - 1)) * 44
          IN  /\ SubSeq(d, p + 1, p + 12) = Zeros(12)
              /\ \A axis \in 1..3 :
                    BigFloatValue(SubSeq(d, p + 9 + 4 * axis, p + 12 + 4 * axis))
                      = tris[t][c][axis]
              /\ SubSeq(d, p + 25, p + 44) = Zeros(20)
    /\ SubSeq(d, 42 + 132 * count, 45 + 132 * count) = << 199, 195, 79, 128 >>
    /\ SubSeq(d, 46 + 132 * count, Len(d)) = obj_name

\* C7, as stated: the stream WriteTriFile writes is magic 123322, float
\* 99999.0, the 16-byte object name, the count, the 13-byte skin name,
\* count*3 records of 11 floats with only floats 4-6 set, float -99999.0 and
\* the object name again; 57 + 132*count bytes in all.
C7_TriStream57 ==
    pc = "Returned" =>
        /\ TriFileLayout(files[1].data, current_frame_triangles, header.numtris)
        /\ Len(files[1].data) = 57 + 132 * header.numtris

\* C7, amended: the same stream, of 61 + 132*count bytes in all
\* (4 + 4 + 16 + 4 + 13 + 132*count + 4 + 16), when every write succeeds.
C7_TriStream61 ==
    pc = "Returned" =>
        /\ TriFileLayout(files[1].data, current_frame_triangles, header.numtris)
        /\ Len(files[1].data) = 61 + 132 * header.numtris

\* a mesh file of two triangles with non-zero positions is written
C7_Witness ==
    /\ pc = "Returned"
    /\ Len(files) = 1
    /\ header.numtris = 2
    /\ current_frame_triangles[2][3][1] = 16777215


(* ---------------------------------------------------------------------- *)
(* C2                                                                      *)
(* ---------------------------------------------------------------------- *)
\* C2: when the frame loop has run and main has left it normally, the
\* index i equals header.numframes exactly.
C2_IndexEqualsNumframesAtExit ==
    (pc \in { "Finish", "Done" } /\ header.numframes > 0) => i = header.numframes

(* ---------------------------------------------------------------------- *)
(* C3                                                                      *)
(* ---------------------------------------------------------------------- *)
\* the tag has been read and is not IDPO, or the version has been read and
\* is not 6
BadMagicOrVersion ==
    \/ pos >= 4 /\ header.ident # 79 * 16777216 + 80 * 65536 + 68 * 256 + 73
    \/ pos >= 8 /\ header.version # 6

\* C3, as stated: with a wrong tag or a wrong version the session fails with
\* InvalidFormat after consuming exactly 8 bytes, and writes no file.
C3_InvalidFormatAfter8 ==
    (BadMagicOrVersion /\ pc \in { "Failed", "Done" }) =>
        /\ err = "InvalidFormat"
        /\ pos = 8
        /\ files = << >>

\* C3, amended: with a wrong tag or a wrong version no byte past the eighth
\* is read and no output file is created; if the input holds the 8 bytes of
\* both fields the session fails with InvalidFormat after consuming exactly
\* 8 bytes, and if it ends before the version is complete the session fails
\* with TruncatedInput instead.
C3_InvalidFormatOrTruncated ==
    BadMagicOrVersion =>
        /\ files = << >>
        /\ pos <= 8
        /\ pos = 8 => pc = "Failed" /\ err = "InvalidFormat"
        /\ pos < 8 => \/ pc = "ReadVersion" /\ err = "None"
                      \/ pc = "Failed" /\ err = "TruncatedInput"

\* the tag is right, the version is 7, and the session has failed on it
C3_Witness ==
    /\ pc = "Failed"
    /\ err = "InvalidFormat"
    /\ header.ident = IDPOLYHEADER
    /\ header.version = 7
    /\ pos = 8

(* ---------------------------------------------------------------------- *)
(* C4                                                                      *)
(* ---------------------------------------------------------------------- *)
\* the bytes the read main is about to make asks for; 0 where main is not
\* about to read
RequestSize ==
    CASE pc \in { "ReadIdent", "ReadVersion", "ReadHeader", "SkinType", "ReadST",
                  "ReadTri", "FrameType", "Interval" } -> 4
      [] pc = "SkinRead" -> header.skinwidth * header.skinheight
      [] pc \in { "SingleInfo", "SubInfo" } -> 24
      [] pc = "GroupInfo" -> 12
      [] pc \in { "SingleVerts", "SubVerts" } -> header.numverts * 4
      [] OTHER -> 0

\* C4: a read that finds fewer bytes than it asks for ends the session at
\* that read with TruncatedInput; nothing is stored from it, no loop index
\* moves and no output file is written; a read that is not short consumes
\* exactly what it asked for and does not report TruncatedInput.
C4_ShortReadFails ==
    [][ /\ pos' - pos <= RequestSize
        /\ pos' - pos < RequestSize =>
              /\ pc' = "Failed"
              /\ err' = "TruncatedInput"
              /\ UNCHANGED << header, skin_data, st_verts, triangles_indices,
                              frame_verts_raw, current_frame_triangles, i, j,
                              actual_group_numframes, frame_type_int, files >>
        /\ pos' - pos = RequestSize => err' # "TruncatedInput"
      ]_vars

\* the input ends inside the packed vertices of a frame
C4_Witness ==
    /\ pc = "Failed"
    /\ err = "TruncatedInput"
    /\ "frame_verts_raw" \in live
    /\ frame_verts_raw = << >>
    /\ pos > 84

(* ---------------------------------------------------------------------- *)
(* C5                                                                      *)
(* ---------------------------------------------------------------------- *)
\* C5: a frame discriminator other than 0 and 1 ends the session with
\* UnknownFrameType in the step that reads it, with no mesh file written
\* and i not advanced, and nothing is read or written after it.
C5_UnknownFrameTypeFails ==
    [][ /\ (pc = "FrameType" /\ pos' = pos + 4 /\ frame_type_int' \notin { 0, 1 }) =>
              /\ pc' = "Failed"
              /\ err' = "UnknownFrameType"
              /\ files' = files
              /\ i' = i
        /\ (pc = "FrameType" /\ pos' = pos + 4 /\ frame_type_int' \in { 0, 1 }) =>
              err' # "UnknownFrameType"
        /\ err = "UnknownFrameType" => pos' = pos /\ files' = files /\ i' = i
      ]_vars

\* the second frame entry carries the discriminator 2
C5_Witness ==
    /\ pc = "Failed"
    /\ err = "UnknownFrameType"
    /\ frame_type_int = 2
    /\ i = 1
    /\ Len(files) > 0

(* ---------------------------------------------------------------------- *)
(* C6                                                                      *)
(* ---------------------------------------------------------------------- *)
\* C6: once the 12 bytes of a group header are read, a sub-frame count
\* below 1 or above 10000 ends the session with SuspiciousCount before any
\* interval is read, any buffer allocated or any file written, and a count
\* of 1..10000 goes on to the intervals.
C6_SuspiciousCountFails ==
    [][ /\ (pc = "GroupInfo" /\ pos' = pos + 12) =>
              IF actual_group_numframes' < 1 \/ actual_group_numframes' > 10000
              THEN /\ pc' = "Failed"
                   /\ err' = "SuspiciousCount"
                   /\ files' = files
                   /\ live' = live
              ELSE /\ pc' = "Interval"
                   /\ err' = "None"
        /\ err = "SuspiciousCount" => pos' = pos /\ files' = files /\ live' = live
      ]_vars

\* a group header declares 10001 sub-frames
C6_Witness ==
    /\ pc = "Failed"
    /\ err = "SuspiciousCount"
    /\ actual_group_numframes = 10001
    /\ frame_type_int = 1

(* ---------------------------------------------------------------------- *)
(* C8                                                                      *)
(* ---------------------------------------------------------------------- *)
\* the order of the stages of a session
Phase(p) ==
    CASE p = "Start" -> 0
      [] p \in { "ReadIdent", "ReadVersion", "ReadHeader" } -> 1
      [] p \in { "SkinType", "SkinAlloc", "SkinRead", "SkinSave" } -> 2
      [] p \in { "AllocST", "ReadST" } -> 3
      [] p \in { "AllocTris", "ReadTri" } -> 4
      [] p \in { "FrameType", "SingleInfo", "SingleAlloc", "SingleVerts", "SingleEmit",
                 "GroupInfo", "Interval", "SubInfo", "SubAlloc", "SubVerts",
                 "SubEmit" } -> 5
      [] p \in { "Finish", "Done" } -> 6
      [] p = "Failed" -> 7

\* the name ends in .lbm, or in .tri
IsRaster(name) == SubSeq(name, Len(name) - 3, Len(name)) = << 46, 108, 98, 109 >>
IsMesh(name) == SubSeq(name, Len(name) - 3, Len(name)) = << 46, 116, 114, 105 >>

RasterCount == Cardinality({ x \in 1..Len(files) : IsRaster(files[x].name) })
MeshCount == Cardinality({ x \in 1..Len(files) : IsMesh(files[x].name) })

AtLeastZero(x) == IF x < 0 THEN 0 ELSE x

\* what holds of every state of a session
SessionOrderState ==
    /\ Phase(pc) \in 2..6 => pos >= 84
    /\ Phase(pc) < 2 => files = << >>
    /\ Phase(pc) \in 3..6 => RasterCount = AtLeastZero(header.numskins)
    /\ Phase(pc) < 3 => st_verts = << >> /\ triangles_indices = << >>
    /\ Phase(pc) \in 4..6 =>
          /\ Len(st_verts) = AtLeastZero(header.numverts)
          /\ \A x \in 1..Len(st_verts) : Len(st_verts[x]) = 3
    /\ Phase(pc) < 4 => triangles_indices = << >>
    /\ Phase(pc) \in 5..6 =>
          /\ Len(triangles_indices) = AtLeastZero(header.numtris)
          /\ \A x \in 1..Len(triangles_indices) : Len(triangles_indices[x]) = 4
    /\ Phase(pc) < 5 => MeshCount = 0
    /\ pc \notin { "Done", "Failed" } => ENABLED Next

\* what holds of every step of a session
SessionOrderStep ==
    /\ Phase(pc') >= Phase(pc)
    /\ pc \notin { "Done", "Failed" }
    /\ header' # header => Phase(pc) = 1
    /\ st_verts' # st_verts => pc = "ReadST"
    /\ triangles_indices' # triangles_indices => pc = "ReadTri"
    /\ files' # files =>
          /\ Len(files') = Len(files) + 1
          /\ SubSeq(files', 1, Len(files)) = files
          /\ IsRaster(files'[Len(files')].name) => pc = "SkinSave"
          /\ IsMesh(files'[Len(files')].name) => pc \in { "SingleEmit", "SubEmit" }

\* C8: a session goes through Start, the header, the skins, the texture
\* vertices, the triangles, the frames and Done in that order, and Failed is
\* the only other state it can stop in: the header is complete before any
\* skin is read, every raster file is written before the texture vertices
\* are read, these are complete before the triangles, both are read once
\* and are complete before any mesh file is written, and nothing is read or
\* written once Done or Failed is reached.
C8_SessionOrder == [] SessionOrderState /\ [][SessionOrderStep]_vars

\* a session with a skin, a single frame and a group has reached Done
C8_Witness ==
    /\ pc = "Done"
    /\ RasterCount = 2
    /\ MeshCount = 2
    /\ header.numverts = 2
    /\ header.numtris = 1

(* ---------------------------------------------------------------------- *)
(* C9                                                                      *)
(* ---------------------------------------------------------------------- *)
\* C9: when the session has ended, on Done or on any error, the program has
\* closed the input file and every output file it opened.
C9_HandlesClosedAtExit ==
    pc \in { "Done", "Failed" } => open = {}

(* ---------------------------------------------------------------------- *)
(* C10                                                                     *)
(* ---------------------------------------------------------------------- *)
\* C10: no fread or fwrite is issued after a fread or fwrite has failed.
C10_NoIoAfterFailure == ioAfterFail = 0

(* ---------------------------------------------------------------------- *)
(* C11                                                                     *)
(* ---------------------------------------------------------------------- *)
\* the byte of d at which the n-th chunk nested in the FORM starts, n in 1..3
NestedChunkStart(d, n) ==
    IF n = 1 THEN 13
    ELSE IF n = 2 THEN 13 + ChunkDiskSize(d, 13)
    ELSE 13 + ChunkDiskSize(d, 13) + ChunkDiskSize(d, 13 + ChunkDiskSize(d, 13))

\* the tag and the payload of the chunk that starts at byte p of d
ChunkTag(d, p) == SubSeq(d, p, p + 3)
ChunkPayload(d, p) == SubSeq(d, p + 8, p + 7 + ChunkPayloadLen(d, p))

\* bytes of the header, and of one skin record of the model in hand
HeaderBytes == 4 * 21
SkinBytes == 4 + header.skinwidth * header.skinheight

\* what holds of every state in and after the skin loop
SkinLoopState ==
    /\ pc = "SkinType" =>
          i < header.numskins /\ pos = HeaderBytes + i * SkinBytes /\ RasterCount = i
    /\ pc \in { "SkinAlloc", "SkinRead" } =>
          i < header.numskins /\ pos = HeaderBytes + i * SkinBytes + 4 /\ RasterCount = i
    /\ pc = "SkinSave" =>
          /\ i < header.numskins
          /\ pos = HeaderBytes + (i + 1) * SkinBytes
          /\ RasterCount = i
          /\ Len(skin_data) = header.skinwidth * header.skinheight
    /\ pc = "AllocST" =>
          /\ i = header.numskins
          /\ pos = HeaderBytes + header.numskins * SkinBytes
    /\ Phase(pc) \in 3..6 =>
          /\ RasterCount = header.numskins
          /\ \A x \in 1..header.numskins :
                /\ files[x].name = SkinFilename(x - 1)
                /\ ChunkPayloadLen(files[x].data, NestedChunkStart(files[x].data, 3))
                     = header.skinwidth * header.skinheight

\* what holds of every step of the skin loop
SkinLoopStep ==
    /\ (pc = "SkinType" /\ pos' = pos + 4) =>
          /\ pc' = "SkinAlloc"
          /\ files' = files
          /\ i' = i
    /\ (pc = "SkinRead" /\ pc' # "Failed") =>
          /\ pos' = pos + header.skinwidth * header.skinheight
          /\ files' = files
    /\ (pc = "SkinSave" /\ pc' # "Failed") =>
          /\ pos' = pos
          /\ i' = i + 1
          /\ Len(files') = Len(files) + 1
          /\ files'[Len(files')].name = SkinFilename(i)
          /\ ChunkTag(files'[Len(files')].data,
                      NestedChunkStart(files'[Len(files')].data, 3)) = << 66, 79, 68, 89 >>
          /\ ChunkPayload(files'[Len(files')].data,
                          NestedChunkStart(files'[Len(files')].data, 3)) = skin_data
    /\ Phase(pc) = 2 /\ pc \notin { "SkinType", "SkinRead", "SkinSave" } =>
          pos' = pos /\ files' = files

\* C11: with skinCount >= 0 and whatever the skin discriminators are (0, 1 or
\* any other value), a skin loop that is not cut short by an error runs
\* skinCount times; each turn consumes 4 + skinwidth*skinheight input bytes
\* and writes one raster file whose BODY is the skinwidth*skinheight bytes
\* read; the discriminator changes neither the bytes consumed nor the files
\* written.
C11_SkinLoop == [] SkinLoopState /\ [][SkinLoopStep]_vars

\* the second skin, whose discriminator is 5, has been read and is about to
\* be written after a first raster file
C11_Witness ==
    /\ pc = "SkinSave"
    /\ skin_type_int = 5
    /\ i = 1
    /\ RasterCount = 1
    /\ header.skinwidth = 2

(* ---------------------------------------------------------------------- *)
(* C12                                                                     *)
(* ---------------------------------------------------------------------- *)
\* the chunk that starts at byte p of d has the tag tag and the payload
\* payload, states the unpadded length of the payload, and is followed by
\* one zero byte exactly when that length is odd
IsChunk(d, p, tag, payload) ==
    /\ ChunkTag(d, p) = tag
    /\ ChunkPayloadLen(d, p) = Len(payload)
    /\ ChunkPayload(d, p) = payload
    /\ ChunkDiskSize(d, p) = 8 + Len(payload) + (IF Len(payload) % 2 = 1 THEN 1 ELSE 0)
    /\ Len(d) >= p + ChunkDiskSize(d, p) - 1
    /\ Len(payload) % 2 = 1 => d[p + 8 + Len(payload)] = 0

\* C12: in a file WriteLBMfile has written, BMHD, CMAP and BODY follow the
\* form type in that order; each is a 4-byte tag, a 4-byte big-endian length
\* equal to the unpadded payload length (20, 768 and width*height), the
\* payload, and one zero byte exactly when that length is odd; the CMAP
\* payload is the 768 palette bytes and the BODY payload the width*height
\* pixel bytes, in order; the file ends with the BODY chunk.
C12_NestedChunks ==
    pc = "Returned" =>
        LET d == files[1].data
            count == header.skinwidth * header.skinheight
        IN  /\ SubSeq(d, 1, 4) = << 70, 79, 82, 77 >>
            /\ SubSeq(d, 9, 12) = << 80, 66, 77, 32 >>
            /\ NestedChunkStart(d, 1) = 13
            /\ IsChunk(d, 13, << 66, 77, 72, 68 >>, ChunkPayload(d, 13))
            /\ ChunkPayloadLen(d, 13) = 20
            /\ NestedChunkStart(d, 2) = 41
            /\ IsChunk(d, 41, << 67, 77, 65, 80 >>, loaded_palette)
            /\ ChunkPayloadLen(d, 41) = 768
            /\ NestedChunkStart(d, 3) = 817
            /\ IsChunk(d, 817, << 66, 79, 68, 89 >>, skin_data)
            /\ ChunkPayloadLen(d, 817) = count
            /\ Len(d) = 816 + ChunkDiskSize(d, 817)
            /\ Len(d) = 824 + count + (IF count % 2 = 1 THEN 1 ELSE 0)
            /\ Len(d) = lbmptr

\* a raster file of 3 by 3 pixels that are not all alike is written
C12_Witness ==
    /\ pc = "Returned"
    /\ Len(files) = 1
    /\ header.skinwidth = 3
    /\ header.skinheight = 3
    /\ skin_data[1] # skin_data[2]
    /\ Len(files[1].data) = 834

(* ---------------------------------------------------------------------- *)
(* C13                                                                     *)
(* ---------------------------------------------------------------------- *)
\* no two output files of the session have the same name
NamesDistinct ==
    \A x \in 1..Len(files), y \in 1..Len(files) :
        x # y => files[x].name # files[y].name

\* the name of a new output file is fixed by the loop main is in and by the
\* indices i and j
NamesStep ==
    files' # files =>
        /\ Len(files') = Len(files) + 1
        /\ pc \in { "SkinSave", "SingleEmit", "SubEmit" }
        /\ pc = "SkinSave" =>
              files'[Len(files')].name
                = << 109, 111, 100, 101, 108, 95, 115, 107, 105, 110 >> \o Decimal(i)
                    \o << 46, 108, 98, 109 >>
        /\ pc = "SingleEmit" =>
              files'[Len(files')].name
                = << 109, 111, 100, 101, 108, 95, 102, 114, 97, 109, 101 >> \o Decimal(i)
                    \o << 46, 116, 114, 105 >>
        /\ pc = "SubEmit" =>
              files'[Len(files')].name
                = << 109, 111, 100, 101, 108, 95, 102, 114, 97, 109, 101 >> \o Decimal(i)
                    \o << 95, 115, 117, 98 >> \o Decimal(j) \o << 46, 116, 114, 105 >>

\* C13: the name of an output file is a function of the skin index, of the
\* frame index and, for a member of a group, of the sub-index; for every
\* sequence of Single and Group entries no two files written in a session
\* have the same name, so no file is overwritten by a later one.
C13_NamesCollisionFree == [] NamesDistinct /\ [][NamesStep]_vars

\* a session that wrote two raster files, the mesh of a single frame and the
\* two meshes of a group has reached Done
C13_Witness ==
    /\ pc = "Done"
    /\ RasterCount = 2
    /\ MeshCount = 3
    /\ Len(files) = 5
    /\ i = 4

(* ---------------------------------------------------------------------- *)
(* C14                                                                     *)
(* ---------------------------------------------------------------------- *)
\* bytes of the input before the first frame entry
FramesStart ==
    HeaderBytes + AtLeastZero(header.numskins) * SkinBytes
      + 12 * AtLeastZero(header.numverts) + 16 * AtLeastZero(header.numtris)

\* bytes of one frame record: the 24-byte frame header and the vertices
FrameBytes == 24 + 4 * header.numverts

\* mesh files already written for the group entry in hand
SubsDone == IF pc \in { "SubInfo", "SubAlloc", "SubVerts", "SubEmit" } THEN j ELSE 0

\* where the frame entry in hand starts: each mesh file written for an
\* earlier entry stands for a discriminator or interval and a frame record,
\* and each earlier group entry for 16 bytes more
EntryStart ==
    FramesStart + (4 + FrameBytes) * (MeshCount - SubsDone)
      + 16 * (i - (MeshCount - SubsDone))

\* the sub-frame counts the count bytes the input may hold stand for, read
\* lowest byte first
LittleEndianCounts ==
    { 0 - 1, 0, 1, 2, 10000, 10001, 16777216 }

\* what holds of every state of the frame loop
FrameLoopState ==
    /\ pc \in { "FrameType", "Finish", "Done" } => pos = EntryStart
    /\ pc \in { "SingleInfo", "GroupInfo" } => pos = EntryStart + 4
    /\ pc \in { "SingleAlloc", "SingleVerts" } => pos = EntryStart + 4 + 24
    /\ pc = "SingleEmit" => pos = EntryStart + 4 + FrameBytes
    /\ pc = "Interval" =>
          /\ j < actual_group_numframes
          /\ pos = EntryStart + 4 + 12 + 4 * j
    /\ pc \in { "Interval", "SubInfo", "SubAlloc", "SubVerts", "SubEmit" } =>
          actual_group_numframes \in 1..10000
    /\ pc \in { "SubInfo", "SubAlloc", "SubVerts", "SubEmit" } =>
          /\ j < actual_group_numframes
          /\ \A k \in 0..(j - 1) :
                files[Len(files) - j + 1 + k].name
                  = << 109, 111, 100, 101, 108, 95, 102, 114, 97, 109, 101 >>
                      \o Decimal(i) \o << 95, 115, 117, 98 >> \o Decimal(k)
                      \o << 46, 116, 114, 105 >>
    /\ pc = "SubInfo" =>
          pos = EntryStart + 4 + 12 + 4 * actual_group_numframes + j * FrameBytes
    /\ pc \in { "SubAlloc", "SubVerts" } =>
          pos = EntryStart + 4 + 12 + 4 * actual_group_numframes + j * FrameBytes + 24
    /\ pc = "SubEmit" =>
          pos = EntryStart + 4 + 12 + 4 * actual_group_numframes + (j + 1) * FrameBytes

\* what holds of every step of the frame loop
FrameLoopStep ==
    /\ (pc = "GroupInfo" /\ pos' = pos + 12) =>
          actual_group_numframes' \in LittleEndianCounts
    /\ (pc = "Interval" /\ pc' # "Failed") =>
          /\ pos' = pos + 4
          /\ pc' = IF j + 1 = actual_group_numframes THEN "SubInfo" ELSE "Interval"
    /\ (pc = "SingleEmit" /\ pc' # "Failed") =>
          /\ Len(files') = Len(files) + 1
          /\ IsMesh(files'[Len(files')].name)
          /\ i' = i + 1
          /\ pc' \in { "FrameType", "Finish" }
    /\ (pc = "SubEmit" /\ pc' # "Failed") =>
          /\ Len(files') = Len(files) + 1
          /\ IsMesh(files'[Len(files')].name)
          /\ j' = j + 1
          /\ IF j + 1 = actual_group_numframes
             THEN i' = i + 1 + actual_group_numframes /\ pc' \in { "FrameType", "Finish" }
             ELSE i' = i /\ pc' = "SubInfo"
    /\ (Phase(pc) = 5 /\ pc \notin { "SingleEmit", "SubEmit" }) =>
          files' = files /\ i' = i

MeshPosition(d, t, c, k) ==
    LET p == 41 + ((t - 1) * 3 + (c - 1)) * 44
    IN  BigFloatValue(SubSeq(d, p + 9 + 4 * k, p + 12 + 4 * k))

\* C15: in every mesh file written, of a Single frame or of a sub-frame of a
\* Group alike, the position of every corner c of every triangle t on every
\* axis k is frameVerts[triangles[t].vertindex[c]].v[k] * scale[k]
\* + scale_origin[k], the packed byte being the unsigned byte 0..255 of the
\* frame's vertex array; the light-normal byte has no part in it.
C15_PositionsFromFrameVerts ==
    [][ (pc \in { "SingleEmit", "SubEmit" } /\ pc' # "Failed") =>
            \A t \in 1..header.numtris, c \in 1..3, k \in 1..3 :
                LET vert_index == triangles_indices[t][c + 1]
                IN  /\ vert_index \in 0..(header.numverts - 1)
                    /\ frame_verts_raw[vert_index + 1][k] \in 0..255
                    /\ MeshPosition(files'[Len(files')].data, t, c, k)
                         = frame_verts_raw[vert_index + 1][k] * header.scale[k]
                             + header.scale_origin[k]
      ]_vars

(* ---------------------------------------------------------------------- *)
(* C16                                                                     *)
(* ---------------------------------------------------------------------- *)
\* what holds of the heap in every state
OwnershipState ==
    /\ "skin_data" \in live => pc \in { "SkinRead", "SkinSave", "Failed" }
    /\ "frame_verts_raw" \in live =>
          pc \in { "SingleVerts", "SingleEmit", "SubVerts", "SubEmit", "Failed" }
    /\ "current_frame_triangles" \in live => pc = "Failed"
    /\ "lbm_buffer" \in live => pc = "Failed"
    /\ "st_verts" \in live => Phase(pc) \in { 3, 4, 5, 7 } \/ pc = "Finish"
    /\ "triangles_indices" \in live => Phase(pc) \in { 4, 5, 7 } \/ pc = "Finish"
    /\ pc = "Done" => live = {}

\* what holds of the heap in every step
OwnershipStep ==
    /\ \A b \in live' \ live :
          \/ b = "skin_data" /\ pc = "SkinAlloc"
          \/ b = "frame_verts_raw" /\ pc \in { "SingleAlloc", "SubAlloc" }
          \/ b = "st_verts" /\ pc = "AllocST"
          \/ b = "triangles_indices" /\ pc = "AllocTris"
          \/ b \in { "lbm_buffer", "current_frame_triangles" } /\ pc' = "Failed"
    /\ pc = "SkinAlloc" /\ pc' # "Failed" => "skin_data" \notin live /\ "skin_data" \in live'
    /\ pc \in { "SingleAlloc", "SubAlloc" } /\ pc' # "Failed" =>
          "frame_verts_raw" \notin live /\ "frame_verts_raw" \in live'
    /\ pc = "AllocST" /\ pc' # "Failed" => "st_verts" \notin live /\ "st_verts" \in live'
    /\ pc = "AllocTris" /\ pc' # "Failed" =>
          "triangles_indices" \notin live /\ "triangles_indices" \in live'
    /\ pc = "SkinSave" /\ pc' # "Failed" =>
          /\ "skin_data" \in live /\ "skin_data" \notin live'
          /\ Len(files') = Len(files) + 1
    /\ pc \in { "SingleEmit", "SubEmit" } /\ pc' # "Failed" =>
          /\ "frame_verts_raw" \in live /\ "frame_verts_raw" \notin live'
          /\ Len(files') = Len(files) + 1
    /\ \A b \in live \ live' :
          \/ b = "skin_data" /\ pc = "SkinSave"
          \/ b = "frame_verts_raw" /\ pc \in { "SingleEmit", "SubEmit" }
          \/ b \in { "st_verts", "triangles_indices" } /\ pc = "Finish"

\* C16: at every point of a session at most one skin pixel buffer, one
\* packed-vertex buffer and one reconstructed-triangle buffer is allocated;
\* the buffers of a frame or sub-frame are freed after its mesh file is
\* written and before the next entry or sub-frame is read, a skin buffer is
\* freed before the next skin is read, and at Done every buffer, texture
\* vertices and triangle indices included, has been freed.
C16_StreamingOwnership == [] OwnershipState /\ [][OwnershipStep]_vars

\* a session with skins, a triangle and one frame has reached Done with
\* nothing left allocated
C16_Witness ==
    /\ pc = "Done"
    /\ live = {}
    /\ RasterCount = 2
    /\ MeshCount = 1
    /\ Len(triangles_indices) = 1
    /\ i = 1

(* ---------------------------------------------------------------------- *)
(* C17                                                                     *)
(* ---------------------------------------------------------------------- *)
\* C17: for every skinwidth and skinheight a header may declare and the
\* decoder hands to WriteLBMfile, the bytes WriteLBMfile writes into
\* lbm_buffer (12 + 28 + 776 + 8 + width*height and the pad byte) are no
\* more than the 8 + 29 + 777 + 8 + 512*512 + 1 bytes it allocated.
C17_WrittenWithinCapacity ==
    pc = "Filled" =>
        /\ lbmptr = 12 + 28 + 776 + 8 + header.skinwidth * header.skinheight
                      + ((header.skinwidth * header.skinheight) % 2)
        /\ lbmptr <= 8 + 29 + 777 + 8 + 512 * 512 + 1

(* ---------------------------------------------------------------------- *)
(* C18                                                                     *)
(* ---------------------------------------------------------------------- *)
\* what holds of the frame index in every state
TerminationState ==
    /\ pc = "FrameType" => i >= 0 /\ i < header.numframes
    /\ Phase(pc) = 5 => header.numframes > 0 /\ i < header.numframes
    /\ (Phase(pc) \in 4..6 /\ header.numframes <= 0) =>
          /\ MeshCount = 0
          /\ Phase(pc) # 5
          /\ pc \in { "Finish", "Done" } => i = 0 /\ pos = FramesStart

\* what holds of the frame index in every step
TerminationStep ==
    /\ (pc = "FrameType" /\ pc' # "Failed") =>
          pc' \in { "SingleInfo", "GroupInfo" } /\ i' = i
    /\ (pc = "SingleEmit" /\ pc' # "Failed") => i' = i + 1
    /\ (pc = "SubEmit" /\ pc' \notin { "Failed", "SubInfo" }) =>
          /\ actual_group_numframes >= 1
          /\ i' = i + 1 + actual_group_numframes
    /\ (Phase(pc) = 5 /\ Phase(pc') = 5) => i' >= i
    /\ (Phase(pc) = 5 /\ pc' = "FrameType") => i' > i
    /\ pos' >= pos
    /\ pc \notin { "Done", "Failed" }

\* C18: on every finite input the session ends in Done or Failed; a turn of
\* the frame loop that does not fail adds 1 (Single) or 1 + n with n >= 1
\* (Group) to the frame index, and a discriminator is read only while the
\* index is below header.numframes, so the loop makes at most
\* header.numframes turns; with numframes <= 0 no discriminator is read and
\* no mesh file is written, and the session goes from the triangles to
\* Done.
C18_Terminates ==
    /\ [] TerminationState
    /\ [][TerminationStep]_vars
    /\ <>(pc \in { "Done", "Failed" })
    /\ (pc = "Finish") ~> (pc = "Done")

\* a header that declares -1 frames: the session has reached Done with the
\* topology read and no mesh file
C18_Witness ==
    /\ pc = "Done"
    /\ header.numframes = 0 - 1
    /\ header.numtris = 1
    /\ Len(triangles_indices) = 1
    /\ files = << >>


====
